---- MODULE Spec2Model ----
(***************************************************************************)
(* Model of the dataset generation scripts of OpenVerify:                  *)
(*   labs/dataset_generation/bj_idcard_generator.py   prepare_mrz_names    *)
(*   labs/dataset_generation/bj_passport_generator.py prepare_mrz_names    *)
(*   labs/dataset_generation/generator.py             generate_documents   *)
(* The two copies of prepare_mrz_names are the same code, statement for     *)
(* statement; the line numbers quoted are those of bj_idcard_generator.py. *)
(* A Python str is a sequence of one-character strings.                    *)
(***************************************************************************)
EXTENDS Integers, Sequences, FiniteSets, TLC

VARIABLES arg_surname, arg_full_name, max_length,
          surname, full_name, given_names,
          result, first, call, pc,
          count_per_type, gen_index, loop_i, doc_counter, metadata, errors, gpc,
          metadata_files,
          PHOTO_CACHE, photo_op, photo_dir, photo_raised, photo_ret

mrz_vars == <<arg_surname, arg_full_name, max_length, surname, full_name,
              given_names, result, first, call, pc>>
gen_vars == <<count_per_type, gen_index, loop_i, doc_counter, metadata, errors, gpc,
              metadata_files>>
vars == <<arg_surname, arg_full_name, max_length, surname, full_name,
          given_names, result, first, call, pc,
          count_per_type, gen_index, loop_i, doc_counter, metadata, errors, gpc,
          metadata_files,
          PHOTO_CACHE, photo_op, photo_dir, photo_raised, photo_ret>>
photo_vars == <<PHOTO_CACHE, photo_op, photo_dir, photo_raised, photo_ret>>

(***************************************************************************)
(* Bounds of the checked input space.                                      *)
(***************************************************************************)
MaxTotalLen == 4
MaxMaxLength == 7
MaxNegLength == 1
MaxCount == 3
MaxFiles == 2

\* Characters of the inputs: two letters that differ only in case, the two
\* permitted non-letters, and one character that is neither (a digit).
Letters == {"A", "a"}
Chars == Letters \cup {" ", "-", "1"}

Min(a, b) == IF a <= b THEN a ELSE b
Max(a, b) == IF a >= b THEN a ELSE b

StrUpTo(n) == UNION {[1..k -> Chars] : k \in 0..n}
MaxLengths == (0 - MaxNegLength)..MaxMaxLength

(***************************************************************************)
(* Python string primitives used by prepare_mrz_names.                     *)
(***************************************************************************)
\* str.isalpha() on one character
isalpha(c) == c \in Letters

\* the filter of sanitize_for_mrz: c.isalpha() or c in ' -'
KeepsDigits(c) == isalpha(c) \/ c \in {" ", "-", "1"}
Permitted(c) == isalpha(c) \/ c \in {" ", "-"}

sanitize_for_mrz(text) == SelectSeq(text, Permitted)

\* text[i:].startswith(old), i 1-based
StartsAt(text, old, i) ==
    /\ i + Len(old) - 1 <= Len(text)
    /\ SubSeq(text, i, i + Len(old) - 1) = old

\* str.replace(old, "") scans left to right and removes every
\* non-overlapping occurrence of a non-empty old
RECURSIVE ReplaceFrom(_, _, _)
ReplaceFrom(text, old, i) ==
    IF i > Len(text) THEN <<>>
    ELSE IF StartsAt(text, old, i) THEN ReplaceFrom(text, old, i + Len(old))
    ELSE <<text[i]>> \o ReplaceFrom(text, old, i + 1)

\* the same scan stopping after the first match (str.replace(old, "", 1))
RECURSIVE FirstFrom(_, _, _)
FirstFrom(text, old, i) ==
    IF i > Len(text) THEN <<>>
    ELSE IF StartsAt(text, old, i) THEN SubSeq(text, i + Len(old), Len(text))
    ELSE <<text[i]>> \o FirstFrom(text, old, i + 1)

ReplaceFirstOnly(text, old) == IF old = <<>> THEN text ELSE FirstFrom(text, old, 1)
ReplaceEmptyClears(text, old) == IF old = <<>> THEN <<>> ELSE ReplaceFrom(text, old, 1)
\* str.replace(old, ""): an empty old inserts "" between the characters
Replace(text, old) == IF old = <<>> THEN text ELSE ReplaceFrom(text, old, 1)

\* str.lstrip() / str.rstrip() / str.strip(); of the characters modelled only
\* the space is whitespace
RECURSIVE lstrip(_)
lstrip(text) ==
    IF text # <<>> /\ Head(text) = " " THEN lstrip(Tail(text)) ELSE text

RECURSIVE rstrip(_)
rstrip(text) ==
    IF text # <<>> /\ text[Len(text)] = " "
    THEN rstrip(SubSeq(text, 1, Len(text) - 1)) ELSE text

StripLeftOnly(text) == lstrip(text)
strip(text) == rstrip(lstrip(text))

\* text[:n] with Python's treatment of a negative stop
SliceClamped(text, n) == SubSeq(text, 1, Min(Max(n, 0), Len(text)))
Slice(text, n) ==
    LET stop == IF n >= 0 THEN Min(n, Len(text)) ELSE Max(Len(text) + n, 0)
    IN  SubSeq(text, 1, stop)

\* the test of the early return: +2 for the "<<" separator
FitsStrict(s, g, ml) == Len(s) + Len(g) + 2 < ml
Fits(s, g, ml) == Len(s) + Len(g) + 2 <= ml

\* min(len(surname), (max_length - 2) // 2), // being floor division
HalfOfWhole(s, ml) == Min(Len(s), ml \div 2)
max_surname_length(s, ml) == Min(Len(s), (ml - 2) \div 2)

\* max_length - 2 - len(surname_mrz)
GivenIgnoresSeparator(ml, surname_mrz) == ml - Len(surname_mrz)
max_given_length(ml, surname_mrz) == ml - 2 - Len(surname_mrz)

(***************************************************************************)
(* prepare_mrz_names, one action per block of the function.                *)
(***************************************************************************)
None == <<"None">>

GenIdle ==
    /\ count_per_type = 0 /\ gen_index = 0 /\ loop_i = 0 /\ doc_counter = 0
    /\ metadata = <<>> /\ errors = 0 /\ gpc = "idle"
    /\ metadata_files = <<>>

\* the module as imported: PHOTO_CACHE = [], no call made yet
PhotoIdle ==
    /\ PHOTO_CACHE = <<>> /\ photo_op = "none" /\ photo_dir = <<>>
    /\ photo_raised = "none" /\ photo_ret = None

MrzIdle ==
    /\ arg_surname = <<>> /\ arg_full_name = <<>> /\ max_length = 0
    /\ surname = None /\ full_name = None /\ given_names = None
    /\ result = None /\ first = None /\ call = 0 /\ pc = "idle"

Init ==
    /\ arg_surname \in StrUpTo(MaxTotalLen)
    /\ arg_full_name \in StrUpTo(MaxTotalLen - Len(arg_surname))
    /\ max_length \in MaxLengths
    /\ surname = None /\ full_name = None /\ given_names = None
    /\ result = None /\ first = None
    /\ call = 1
    /\ pc = "called"
    /\ GenIdle
    /\ PhotoIdle

\* surname = sanitize_for_mrz(surname); full_name = sanitize_for_mrz(full_name)
\* given_names = full_name.replace(surname, "").strip()
Sanitize ==
    /\ pc = "called"
    /\ surname' = sanitize_for_mrz(arg_surname)
    /\ full_name' = sanitize_for_mrz(arg_full_name)
    /\ given_names' = strip(Replace(sanitize_for_mrz(arg_full_name),
                                    sanitize_for_mrz(arg_surname)))
    /\ pc' = "sanitized"
    /\ UNCHANGED <<arg_surname, arg_full_name, max_length, result, first, call>>
    /\ UNCHANGED gen_vars
    /\ UNCHANGED photo_vars

\* if len(surname) + len(given_names) + 2 <= max_length: return surname, given_names
ReturnFit ==
    /\ pc = "sanitized"
    /\ Fits(surname, given_names, max_length)
    /\ result' = <<surname, given_names>>
    /\ pc' = "returned"
    /\ UNCHANGED <<arg_surname, arg_full_name, max_length, surname, full_name,
                   given_names, first, call>>
    /\ UNCHANGED gen_vars
    /\ UNCHANGED photo_vars

\* the truncating tail of the function
Truncate ==
    /\ pc = "sanitized"
    /\ ~Fits(surname, given_names, max_length)
    /\ LET surname_mrz == Slice(surname, max_surname_length(surname, max_length))
           given_names_mrz == Slice(given_names,
                                    max_given_length(max_length, surname_mrz))
       IN  result' = <<surname_mrz, given_names_mrz>>
    /\ pc' = "returned"
    /\ UNCHANGED <<arg_surname, arg_full_name, max_length, surname, full_name,
                   given_names, first, call>>
    /\ UNCHANGED gen_vars
    /\ UNCHANGED photo_vars

\* a second call, prepare_mrz_names(s, g, max_length), on the pair (s, g)
\* the first call returned
Renormalize ==
    /\ pc = "returned"
    /\ call = 1
    /\ arg_surname' = result[1]
    /\ arg_full_name' = result[2]
    /\ first' = result
    /\ call' = 2
    /\ surname' = None /\ full_name' = None /\ given_names' = None
    /\ result' = None
    /\ pc' = "called"
    /\ UNCHANGED max_length
    /\ UNCHANGED gen_vars
    /\ UNCHANGED photo_vars

Next == Sanitize \/ ReturnFit \/ Truncate \/ Renormalize

Spec == Init /\ [][Next]_vars

(***************************************************************************)
(* generate_documents: the two nested loops over the generators and over   *)
(* range(count_per_type), one action per outcome of an iteration.          *)
(***************************************************************************)
\* the (generator_func, doc_type) list, by doc_type
generators == <<"BJ ID Card", "BJ Passport", "CIV Passport">>

\* what main() of bj_idcard_generator returns: combined_data with the key
\* "idcard_path" and no "passport_number"
bj_idcard_main ==
    [idcard_path |-> TRUE, passport_number |-> None, output_path |-> FALSE]

\* what main() of bj_passport_generator returns: combined_data with
\* "output_path" and a "passport_number" drawn from '??#######'
bj_passport_main ==
    [idcard_path |-> FALSE,
     passport_number |-> <<"A", "B", "1", "2", "3", "4", "5", "6", "7">>,
     output_path |-> TRUE]

\* civ_passport_generator: a near-duplicate of the passport script
civ_passport_main ==
    [idcard_path |-> FALSE,
     passport_number |-> <<"C", "D", "7", "6", "5", "4", "3", "2", "1">>,
     output_path |-> TRUE]

generator_func(doc_type) ==
    CASE doc_type = "BJ ID Card" -> bj_idcard_main
      [] doc_type = "BJ Passport" -> bj_passport_main
      [] doc_type = "CIV Passport" -> civ_passport_main

\* str.endswith(suffix)
endswith(text, suffix) ==
    /\ Len(text) >= Len(suffix)
    /\ SubSeq(text, Len(text) - Len(suffix) + 1, Len(text)) = suffix

\* the if / elif of lines 88-91: is an image path extracted from doc_data
has_image_path(doc_data) ==
    \/ doc_data.idcard_path
    \/ /\ doc_data.passport_number # None
       /\ endswith(doc_data.passport_number, <<".", "p", "n", "g">>)

\* f"{n:03d}": the decimal digits of n, zero-padded to at least 3
DigitChar(d) == <<"0", "1", "2", "3", "4", "5", "6", "7", "8", "9">>[d + 1]

RECURSIVE Decimal(_)
Decimal(n) ==
    IF n < 10 THEN <<DigitChar(n)>> ELSE Decimal(n \div 10) \o <<DigitChar(n % 10)>>

RECURSIVE ZeroPad(_, _)
ZeroPad(digits, width) ==
    IF Len(digits) >= width THEN digits ELSE ZeroPad(<<"0">> \o digits, width)

Format03d(n) == ZeroPad(Decimal(n), 3)

\* the fields of standardize_metadata's row that depend on doc_type, with
\* the image_filename set at line 105
standardize_metadata(doc_type, counter) ==
    [document_type |-> doc_type,
     nationality |-> IF doc_type \in {"BJ ID Card", "BJ Passport"} THEN "BEN" ELSE "CIV",
     image_filename |-> <<"document_">> \o Format03d(counter) \o <<".png">>]

InitGen ==
    /\ MrzIdle
    /\ PhotoIdle
    /\ count_per_type \in 0..MaxCount
    /\ gen_index = 1
    /\ loop_i = 0
    /\ doc_counter = 1
    /\ metadata = <<>>
    /\ errors = 0
    /\ metadata_files = <<>>
    /\ gpc = "loop"

\* both for loops are exhausted
LoopsDone == count_per_type = 0 \/ gen_index > Len(generators)

\* the step of the inner for, falling through to the outer for
Advance ==
    IF loop_i + 1 < count_per_type
    THEN /\ loop_i' = loop_i + 1
         /\ gen_index' = gen_index
    ELSE /\ loop_i' = 0
         /\ gen_index' = gen_index + 1

\* the generator returns, an image path is found: lines 95-108
DocAppend ==
    /\ gpc = "loop" /\ ~LoopsDone
    /\ has_image_path(generator_func(generators[gen_index]))
    /\ metadata' = Append(metadata,
                          standardize_metadata(generators[gen_index], doc_counter))
    /\ doc_counter' = doc_counter + 1
    /\ Advance
    /\ UNCHANGED <<count_per_type, errors, gpc, metadata_files>>
    /\ UNCHANGED mrz_vars
    /\ UNCHANGED photo_vars

\* the generator returns, no image path is found: continue (line 93)
DocSkip ==
    /\ gpc = "loop" /\ ~LoopsDone
    /\ ~has_image_path(generator_func(generators[gen_index]))
    /\ Advance
    /\ UNCHANGED <<count_per_type, doc_counter, metadata, errors, gpc, metadata_files>>
    /\ UNCHANGED mrz_vars
    /\ UNCHANGED photo_vars

\* an except clause that also takes a document number
DocErrorTakesNumber ==
    /\ gpc = "loop" /\ ~LoopsDone
    /\ errors' = errors + 1
    /\ doc_counter' = doc_counter + 1
    /\ Advance
    /\ UNCHANGED <<count_per_type, metadata, gpc, metadata_files>>
    /\ UNCHANGED mrz_vars
    /\ UNCHANGED photo_vars

\* the generator, or a later statement of the try block (the lookup of
\* "output_path", shutil.copy), raises: the except of lines 110-111 prints
\* and the loop goes on
DocError ==
    /\ gpc = "loop" /\ ~LoopsDone
    /\ errors' = errors + 1
    /\ Advance
    /\ UNCHANGED <<count_per_type, doc_counter, metadata, gpc, metadata_files>>
    /\ UNCHANGED mrz_vars
    /\ UNCHANGED photo_vars

\* return metadata
ReturnMetadata ==
    /\ gpc = "loop" /\ LoopsDone
    /\ gpc' = "returned"
    /\ UNCHANGED <<count_per_type, gen_index, loop_i, doc_counter, metadata, errors,
                   metadata_files>>
    /\ UNCHANGED mrz_vars
    /\ UNCHANGED photo_vars

\* the per-item files save_metadata writes for the first n items:
\* dataset/metadata/<i+1:03d>.json holding item i
save_metadata(items, n) ==
    [k \in 1..n |-> [file_name |-> Format03d(k) \o <<".json">>, item |-> items[k]]]

\* create_and_upload_dataset passes the returned list to save_metadata; a
\* write error ends the loop of lines 126-128 after the files written so far
SaveMetadata ==
    /\ gpc = "returned"
    /\ \E n \in 0..Len(metadata) : metadata_files' = save_metadata(metadata, n)
    /\ gpc' = "saved"
    /\ UNCHANGED <<count_per_type, gen_index, loop_i, doc_counter, metadata, errors>>
    /\ UNCHANGED mrz_vars
    /\ UNCHANGED photo_vars

NextGen == DocAppend \/ DocSkip \/ DocError \/ ReturnMetadata \/ SaveMetadata

SpecGen == InitGen /\ [][NextGen]_vars

(***************************************************************************)
(* The photo cache of bj_passport_generator: preload_photos and            *)
(* load_random_photo over the module-level list PHOTO_CACHE.  A directory  *)
(* is the sequence of its files in the order glob yields them.             *)
(***************************************************************************)
Contents == {"x", "y"}
\* the files a directory can hold: a readable photo of either content, a
\* photo that cannot be read, and a file that is not a .jpg
Files ==
    [jpg : {TRUE}, readable : {TRUE}, content : Contents]
    \cup {[jpg |-> TRUE, readable |-> FALSE, content |-> "x"],
          [jpg |-> FALSE, readable |-> TRUE, content |-> "x"]}
Dirs == UNION {[1..k -> Files] : k \in 0..MaxFiles}

IsJpg(f) == f.jpg
\* list(Path(photo_dir).glob("*.jpg"))
glob(dir) == SelectSeq(dir, IsJpg)

\* base64.b64encode(image_file.read()).decode('utf-8')
b64encode(content) == <<"b64", content>>

\* the for loop of lines 28-30: open() raises on a file that cannot be
\* read and leaves what was appended before it
RECURSIVE read_files(_, _)
read_files(files, cache) ==
    IF files = <<>> THEN [cache |-> cache, raised |-> "none"]
    ELSE IF ~Head(files).readable THEN [cache |-> cache, raised |-> "OSError"]
    ELSE read_files(Tail(files), Append(cache, b64encode(Head(files).content)))

\* preload_photos without the early return of lines 21-22
PreloadAgain(cache, dir) ==
    IF glob(dir) = <<>>
    THEN [cache |-> cache, raised |-> "FileNotFoundError", ret |-> None]
    ELSE LET r == read_files(glob(dir), cache)
         IN  [cache |-> r.cache, raised |-> r.raised,
              ret |-> IF r.raised = "none" THEN Len(r.cache) ELSE None]

\* preload_photos(photo_dir) run on the cache: the cache it leaves, the
\* exception it raises and the value it returns
preload_photos(cache, dir) ==
    IF cache # <<>>
    THEN [cache |-> cache, raised |-> "none", ret |-> Len(cache)]
    ELSE IF glob(dir) = <<>>
    THEN [cache |-> cache, raised |-> "FileNotFoundError", ret |-> None]
    ELSE LET r == read_files(glob(dir), cache)
         IN  [cache |-> r.cache, raised |-> r.raised,
              ret |-> IF r.raised = "none" THEN Len(r.cache) ELSE None]

InitPhoto == MrzIdle /\ GenIdle /\ PhotoIdle

\* a call preload_photos(photo_dir)
PreloadPhotos ==
    \E dir \in Dirs :
        LET r == preload_photos(PHOTO_CACHE, dir)
        IN  /\ PHOTO_CACHE' = r.cache
            /\ photo_op' = "preload_photos"
            /\ photo_dir' = dir
            /\ photo_raised' = r.raised
            /\ photo_ret' = r.ret
            /\ UNCHANGED mrz_vars
            /\ UNCHANGED gen_vars

\* a call load_random_photo(photo_dir): preload when the cache is empty,
\* then PHOTO_CACHE[secrets.randbelow(len(PHOTO_CACHE))]
LoadRandomPhoto ==
    \E dir \in Dirs :
        LET r == IF PHOTO_CACHE = <<>>
                 THEN preload_photos(PHOTO_CACHE, dir)
                 ELSE [cache |-> PHOTO_CACHE, raised |-> "none", ret |-> None]
        IN  /\ PHOTO_CACHE' = r.cache
            /\ photo_op' = "load_random_photo"
            /\ photo_dir' = dir
            /\ photo_raised' = r.raised
            /\ IF r.raised # "none"
               THEN photo_ret' = None
               ELSE \E k \in 1..Len(r.cache) : photo_ret' = r.cache[k]
            /\ UNCHANGED mrz_vars
            /\ UNCHANGED gen_vars

NextPhoto == PreloadPhotos \/ LoadRandomPhoto

SpecPhoto == InitPhoto /\ [][NextPhoto]_vars

(***************************************************************************)
(* Vocabulary of the properties, stated without the operators above.       *)
(***************************************************************************)
Returned == pc = "returned"
Derived == pc \in {"sanitized", "returned"}

\* the test of line 58 on the sanitized surname and the derived given names
SanitizedFit == Len(surname) + Len(given_names) + 2 <= max_length
WithinBudget == Len(result[1]) + Len(result[2]) + 2 <= max_length

\* the first n characters of text, none for n <= 0
LeadingChars(text, n) == [k \in 1..Min(Max(n, 0), Len(text)) |-> text[k]]
IsPrefix(p, text) == Len(p) <= Len(text) /\ \A k \in 1..Len(p) : p[k] = text[k]

\* old appears verbatim and contiguous in text
OccursIn(old, text) ==
    \E i \in 1..(Len(text) + 1) :
        /\ i + Len(old) - 1 <= Len(text)
        /\ \A k \in 1..Len(old) : text[i + k - 1] = old[k]

\* start positions of the occurrences of a non-empty old in text
Occurrences(text, old) ==
    {i \in 1..Len(text) :
        /\ i + Len(old) - 1 <= Len(text)
        /\ \A k \in 1..Len(old) : text[i + k - 1] = old[k]}

\* the occurrences a left-to-right scan matches: pairwise disjoint, and every
\* other occurrence overlaps a matched one that starts before it
Matched(text, old) ==
    CHOOSE P \in SUBSET Occurrences(text, old) :
        /\ \A p, q \in P : p < q => p + Len(old) <= q
        /\ \A q \in Occurrences(text, old) \ P :
              \E p \in P : p < q /\ q < p + Len(old)

\* text restricted to the positions in keep, in order
Restrict(text, keep) ==
    LET at(k) == CHOOSE j \in keep : Cardinality({m \in keep : m < j}) = k - 1
    IN  [k \in 1..Cardinality(keep) |-> text[at(k)]]

\* text without every matched occurrence of old
WithoutAll(text, old) ==
    IF old = <<>> THEN text
    ELSE Restrict(text, {j \in 1..Len(text) :
                            ~\E p \in Matched(text, old) : p <= j /\ j < p + Len(old)})

\* text without its leading and trailing spaces
Trimmed(text) ==
    LET solid == {j \in 1..Len(text) : text[j] # " "}
    IN  IF solid = {} THEN <<>>
        ELSE LET lo == CHOOSE j \in solid : \A m \in solid : j <= m
                 hi == CHOOSE j \in solid : \A m \in solid : m <= j
             IN  [k \in 1..(hi - lo + 1) |-> text[lo + k - 1]]

OnlyPermitted(text) == \A k \in 1..Len(text) : text[k] \in Letters \cup {" ", "-"}

(***************************************************************************)
(* C1                                                                      *)
(***************************************************************************)
\* C1 (as stated): for every surname, full_name and integer max_length the
\* returned fields satisfy len(surname_field) + len(given_names_field) + 2
\* <= max_length.
C1_BudgetEveryMaxLength == Returned => WithinBudget

\* C1 (amended): for every surname and full_name and every max_length >= 2
\* the returned fields satisfy len(surname_field) + len(given_names_field)
\* + 2 <= max_length.
C1_Budget == Returned /\ max_length >= 2 => WithinBudget

C1_Witness ==
    /\ Returned /\ call = 1 /\ max_length >= 2 /\ ~SanitizedFit
    /\ result[1] # <<>> /\ result[2] # <<>>
    /\ Len(result[1]) + Len(result[2]) + 2 = max_length

(***************************************************************************)
(* C2                                                                      *)
(***************************************************************************)
\* C2: every character of both returned fields is alphabetic, a space or a
\* hyphen; no other character of the inputs survives.
C2_PermittedChars == Returned => OnlyPermitted(result[1]) /\ OnlyPermitted(result[2])

C2_Witness ==
    /\ Returned /\ call = 1
    /\ \E k \in 1..Len(arg_surname) : arg_surname[k] = "1"
    /\ \E k \in 1..Len(arg_full_name) : arg_full_name[k] = "1"
    /\ result[1] # <<>> /\ result[2] # <<>>

(***************************************************************************)
(* C3                                                                      *)
(***************************************************************************)
\* C3: whenever the sanitized surname and the derived given names satisfy
\* len(surname) + len(given_names) + 2 <= max_length, the call returns
\* exactly (sanitized surname, derived given names), neither truncated.
C3_FitReturnsUntruncated ==
    Returned /\ SanitizedFit => result = <<surname, given_names>>

C3_Witness ==
    /\ Returned /\ call = 1
    /\ Len(surname) + Len(given_names) + 2 = max_length
    /\ surname # <<>> /\ given_names # <<>>
    /\ result = <<surname, given_names>>

(***************************************************************************)
(* C4                                                                      *)
(***************************************************************************)
\* C4 (as stated): calling prepare_mrz_names again on the returned pair
\* (s, g) with the same max_length returns the same pair (s, g).
C4_Idempotent == Returned /\ call = 2 => result = first

\* C4 (amended): for max_length >= 2, calling prepare_mrz_names again on
\* the returned pair (s, g) returns the same pair (s, g) provided g has no
\* leading or trailing space and a non-empty s does not occur in g.
C4_IdempotentWhenDisjoint ==
    /\ Returned /\ call = 2 /\ max_length >= 2
    /\ Trimmed(first[2]) = first[2]
    /\ first[1] = <<>> \/ ~OccursIn(first[1], first[2])
    => result = first

C4_Witness ==
    /\ Returned /\ call = 2 /\ max_length >= 2
    /\ first[1] # <<>> /\ first[2] # <<>>
    /\ Trimmed(first[2]) = first[2]
    /\ ~OccursIn(first[1], first[2])
    /\ Len(first[1]) + Len(first[2]) + 2 = max_length
    /\ result = first

(***************************************************************************)
(* C5                                                                      *)
(***************************************************************************)
\* C5 (as stated): there is no error outcome: for every surname and
\* full_name, empty and unsanitizable ones included, every step of a call
\* yields strings and the call returns a pair of strings within the
\* max_length budget.
C5_NoErrorEveryMaxLength ==
    /\ Derived => surname \in Seq(Chars) /\ given_names \in Seq(Chars)
    /\ Returned => /\ result[1] \in Seq(Chars) /\ result[2] \in Seq(Chars)
                   /\ WithinBudget

\* C5 (amended): there is no error outcome: for every surname and
\* full_name, empty and unsanitizable ones included, every step of a call
\* yields strings and the call returns a pair of strings, which is within
\* the max_length budget when max_length >= 2.
C5_NoErrorOutcome ==
    /\ Derived => surname \in Seq(Chars) /\ given_names \in Seq(Chars)
    /\ Returned => /\ result[1] \in Seq(Chars) /\ result[2] \in Seq(Chars)
                   /\ max_length >= 2 => WithinBudget

C5_Witness ==
    /\ Returned /\ call = 1 /\ max_length >= 2
    /\ arg_surname # <<>> /\ arg_full_name # <<>>
    /\ \A k \in 1..Len(arg_surname) : arg_surname[k] = "1"
    /\ \A k \in 1..Len(arg_full_name) : arg_full_name[k] = "1"
    /\ result = << <<>>, <<>> >>

(***************************************************************************)
(* C6                                                                      *)
(***************************************************************************)
EntriesOfType(doc_type) ==
    Cardinality({k \in 1..Len(metadata) : metadata[k].document_type = doc_type})

\* C6: when no generator call raises, the metadata generate_documents
\* returns holds exactly count_per_type entries of each of the three types
\* (3 * count_per_type in total).
C6_CountPerType ==
    gpc = "returned" /\ errors = 0 =>
        /\ \A t \in {"BJ ID Card", "BJ Passport", "CIV Passport"} :
              EntriesOfType(t) = count_per_type
        /\ Len(metadata) = 3 * count_per_type

(***************************************************************************)
(* C7                                                                      *)
(***************************************************************************)
\* C7 (as stated): given_names is the sanitized full_name with only the
\* first occurrence of the sanitized surname removed, then trimmed; later
\* occurrences are kept.
C7_FirstOccurrenceOnly ==
    Derived => given_names = Trimmed(ReplaceFirstOnly(full_name, surname))

\* C7 (amended): given_names is the sanitized full_name with every
\* occurrence of the sanitized surname that a left-to-right scan matches
\* removed, then trimmed; no matched occurrence after the first is kept.
C7_EveryOccurrenceRemoved ==
    Derived => given_names = Trimmed(WithoutAll(full_name, surname))

C7_Witness ==
    /\ Derived /\ call = 1 /\ surname # <<>>
    /\ Cardinality(Matched(full_name, surname)) >= 2
    /\ given_names # <<>>

(***************************************************************************)
(* C8                                                                      *)
(***************************************************************************)
\* C8 (as stated): when len(surname) + len(given_names) + 2 > max_length,
\* surname_field is the leading min(len(surname), floor((max_length-2)/2))
\* characters of the sanitized surname, given_names_field the leading
\* max_length - 2 - len(surname_field) characters of the derived given
\* names, and both are prefixes of their sources.
C8_TruncationEveryMaxLength ==
    Returned /\ ~SanitizedFit =>
        /\ result[1] = LeadingChars(surname,
                           Min(Len(surname), (max_length - 2) \div 2))
        /\ result[2] = LeadingChars(given_names,
                           max_length - 2 - Len(result[1]))
        /\ IsPrefix(result[1], surname) /\ IsPrefix(result[2], given_names)

\* C8 (amended): the same, for max_length >= 2.
C8_Truncation ==
    Returned /\ ~SanitizedFit /\ max_length >= 2 =>
        /\ result[1] = LeadingChars(surname,
                           Min(Len(surname), (max_length - 2) \div 2))
        /\ result[2] = LeadingChars(given_names,
                           max_length - 2 - Len(result[1]))
        /\ IsPrefix(result[1], surname) /\ IsPrefix(result[2], given_names)

C8_Witness ==
    /\ Returned /\ call = 1 /\ ~SanitizedFit /\ max_length >= 2
    /\ result[1] # <<>> /\ Len(result[1]) < Len(surname)
    /\ result[2] # <<>> /\ Len(result[2]) < Len(given_names)

(***************************************************************************)
(* C9                                                                      *)
(***************************************************************************)
\* C9 (as stated): if the sanitized surname does not appear verbatim in the
\* sanitized full_name, given_names equals the full sanitized name.
C9_NoOccurrenceKeepsFullName ==
    Derived /\ ~OccursIn(surname, full_name) => given_names = full_name

\* C9 (amended): if the sanitized surname does not appear verbatim in the
\* sanitized full_name, nothing is removed and given_names equals the full
\* sanitized name with its surrounding whitespace trimmed.
C9_NoOccurrenceKeepsTrimmedName ==
    Derived /\ ~OccursIn(surname, full_name) => given_names = Trimmed(full_name)

C9_Witness ==
    /\ Derived /\ call = 1 /\ ~OccursIn(surname, full_name)
    /\ surname = <<"a">>
    /\ \E k \in 1..Len(full_name) : full_name[k] = "A"
    /\ given_names = full_name

(***************************************************************************)
(* C10                                                                     *)
(***************************************************************************)
\* C10: prepare_mrz_names("", full_name, max_length) removes nothing: when
\* the values fit the budget it returns the surname field "" and the
\* sanitized full_name with its surrounding whitespace trimmed.
C10_EmptySurname ==
    Returned /\ call = 1 /\ arg_surname = <<>> /\ SanitizedFit =>
        result = << <<>>, Trimmed(full_name) >>

C10_Witness ==
    /\ Returned /\ call = 1 /\ arg_surname = <<>> /\ SanitizedFit
    /\ Len(full_name) >= 3 /\ full_name[1] = " "
    /\ result = << <<>>, Trimmed(full_name) >>
    /\ Len(result[2]) = 2

(***************************************************************************)
(* C11                                                                     *)
(***************************************************************************)
\* one call of preload_photos or load_random_photo, seen as a step
CachedCallStep ==
    PHOTO_CACHE # <<>> =>
        /\ PHOTO_CACHE' = PHOTO_CACHE
        /\ photo_raised' = "none"
        /\ photo_op' = "preload_photos" => photo_ret' = Len(PHOTO_CACHE)
        /\ photo_op' = "load_random_photo" =>
              \E k \in 1..Len(PHOTO_CACHE) : photo_ret' = PHOTO_CACHE[k]

NoPhotosStep ==
    /\ PHOTO_CACHE = <<>>
    /\ photo_op' = "preload_photos"
    /\ \A k \in 1..Len(photo_dir') : ~photo_dir'[k].jpg
    => photo_raised' = "FileNotFoundError" /\ PHOTO_CACHE' = <<>>

\* C11: the photo cache is populated at most once: once PHOTO_CACHE is
\* non-empty, every later call of preload_photos or load_random_photo, with
\* any photo_dir, leaves it unchanged, preload_photos returns its size and
\* load_random_photo returns one of its elements; preload_photos on a
\* directory with no photos raises FileNotFoundError and leaves the cache
\* empty.
C11_PopulatedAtMostOnce == [][CachedCallStep /\ NoPhotosStep]_vars

\* a preload_photos call on a directory without photos that returned the
\* size of a cache of two photos, and a load_random_photo call that returned
\* a cached photo for such a directory
C11_Witness ==
    /\ Len(PHOTO_CACHE) >= 2
    /\ \A k \in 1..Len(photo_dir) : ~photo_dir[k].jpg
    /\ photo_raised = "none"
    /\ photo_op = "preload_photos"
    /\ photo_ret = Len(PHOTO_CACHE)

(***************************************************************************)
(* C12                                                                     *)
(***************************************************************************)
DigitVal(c) ==
    CASE c = "0" -> 0 [] c = "1" -> 1 [] c = "2" -> 2 [] c = "3" -> 3
      [] c = "4" -> 4 [] c = "5" -> 5 [] c = "6" -> 6 [] c = "7" -> 7
      [] c = "8" -> 8 [] c = "9" -> 9

RECURSIVE NumberOf(_)
NumberOf(digits) ==
    IF digits = <<>> THEN 0
    ELSE 10 * NumberOf(SubSeq(digits, 1, Len(digits) - 1))
         + DigitVal(digits[Len(digits)])

\* digits writes n in decimal, zero-padded to three digits
ThreeDigitsOf(digits, n) ==
    /\ Len(digits) >= 3
    /\ \A k \in 1..Len(digits) : digits[k] \in {"0", "1", "2", "3", "4", "5", "6", "7", "8", "9"}
    /\ Len(digits) > 3 => digits[1] # "0"
    /\ NumberOf(digits) = n

\* name is <prefix><n, 3 digits><suffix>
NumberedName(name, prefix, n, suffix) ==
    /\ Len(name) >= 2 + Len(prefix)
    /\ SubSeq(name, 1, Len(prefix)) = prefix
    /\ name[Len(name)] = suffix
    /\ ThreeDigitsOf(SubSeq(name, Len(prefix) + 1, Len(name) - 1), n)

IterationsDone == (gen_index - 1) * count_per_type + loop_i

MetadataNumbered ==
    gpc \in {"loop", "returned", "saved"} =>
        /\ Len(metadata) = doc_counter - 1
        /\ \A k \in 1..Len(metadata) :
              NumberedName(metadata[k].image_filename, <<"document_">>, k, ".png")
        /\ \A k \in 1..Len(metadata_files) :
              /\ NumberedName(metadata_files[k].file_name, <<>>, k, ".json")
              /\ NumberedName(metadata_files[k].item.image_filename,
                              <<"document_">>, k, ".png")
        /\ gpc # "loop" => IterationsDone = 3 * count_per_type

\* a generator call: it is one more iteration done, and it either appends
\* one entry and takes one number or does neither
GeneratorCallStep ==
    gpc = "loop" /\ gpc' = "loop" =>
        /\ IterationsDone' = IterationsDone + 1
        /\ \/ /\ Len(metadata') = Len(metadata) + 1
              /\ doc_counter' = doc_counter + 1
              /\ errors' = errors
           \/ /\ metadata' = metadata
              /\ doc_counter' = doc_counter
              /\ errors' \in {errors, errors + 1}

\* C12: after any sequence of generator calls that succeed, are skipped or
\* raise, len(metadata) = doc_counter - 1 and the entry at 0-based index i
\* has image_filename 'document_<i+1, 3 digits>.png'; a call that raises or
\* is skipped appends no entry, takes no counter value and does not stop the
\* remaining calls, so the file number save_metadata uses for an item (i+1)
\* is the number of the item's image.
C12_MetadataNumbering == []MetadataNumbered /\ [][GeneratorCallStep]_vars

\* three ID card calls of which one raised, the two entries saved
C12_Witness ==
    /\ gpc = "saved" /\ count_per_type = 3
    /\ errors >= 1
    /\ Len(metadata) = 2 /\ Len(metadata_files) = 2
    /\ metadata[2].document_type = "BJ ID Card"

====
